---- MODULE Spec2Model ----
(***************************************************************************)
(* gh-jira: a poller that mirrors open GitHub issues into Jira, with an    *)
(* Ollama-generated summary.                                               *)
(*                                                                         *)
(* Three specifications over one set of variables:                         *)
(*   SpecSum      Summarizer.SummarizeWithCustomPrompt / SummarizeChanges  *)
(*                (pkg/summarizer/summarizer.go): the producer goroutine   *)
(*                and the consumer's select loop, step by step.            *)
(*   Spec         main, pollGitHub, createJiraIssue and                    *)
(*                updateGitHubIssueWithJiraLink of main.go.                *)
(*   SpecPart000  main, pollGitHub and createJiraIssue of the second       *)
(*                entry point (unnamed/part_000).                          *)
(***************************************************************************)
EXTENDS Naturals, Sequences, FiniteSets

VARIABLES
    \* ---- summarizer (one call of SummarizeWithCustomPrompt) ----
    frags,          \* the fragments the model endpoint emits, in order
    sent,           \* how many of them the callback has handed to the consumer
    ppc,            \* producer goroutine: position
    genRes,         \* outcome of s.client.Generate
    errChan,        \* make(chan error, 1): [buf, closed]
    streamClosed,   \* close(stream) has run
    cpc,            \* consumer (the caller's goroutine): position
    wake,           \* the select case a parked consumer was woken for
    got,            \* the response received from stream, not yet appended
    fullResponse,   \* strings.Builder
    ret,            \* what the call returned: [text, err]
    ctxDone,        \* ctx.Done() is closed
    ctxInFlight,    \* history: ctx fired while the generation call was running
                    \*          and the consumer had not returned
    nilSeen,        \* history: the consumer received nil from the closed errChan
    closes,         \* history: the close calls made, in order: <<channel, goroutine>>
    sendOnClosed,   \* history: the channels that got a send after their close
    \* ---- poller ----
    prog,           \* which program runs: "summarizer", "main.go" or "part_000"
    exit,           \* "no", or why the process ended
    sumOK,          \* summarizer.New returned a usable *Summarizer
    jiraURLok,      \* http.NewRequest accepts jiraBaseURL + "/rest/api/2/issue"
    sched,          \* main(): position
    tickerC,        \* ticker.C: number of buffered ticks (capacity 1)
    pc,             \* per goroutine: position inside pollGitHub
    issues,         \* per goroutine: the list ListByRepo returned
    idx,            \* per goroutine: position of the range loop
    cerr,           \* per goroutine: the error createJiraIssue returned
    jiraKey,        \* per goroutine: jiraResponse.Key
    processedIssueIDs,
    ferr,           \* per goroutine: its last ListByRepo call returned an error
    summary,        \* per goroutine: the text SummarizeWithCustomPrompt returned
    payload,        \* per goroutine: the payload createJiraIssue built
    resp,           \* per goroutine: the body of Jira's 2xx response
    editReq,        \* per goroutine: the body updateGitHubIssueWithJiraLink sends
    \* ---- history of the poller's calls ----
    cycles,         \* pollGitHub calls started
    ticksTaken,     \* ticks received from ticker.C
    examined,       \* per goroutine: positions of this cycle that got a summary request
    failed,         \* per goroutine: positions of this cycle whose summary or creation failed
    failedPrev,     \* items whose summary or creation failed in an earlier cycle
    sumCalls,       \* summary requests per item
    createCalls,    \* POSTs sent to Jira per item
    created2xx,     \* POSTs answered 2xx per item
    linkCalls,      \* Issues.Edit calls per item
    parsed2xx,      \* items with a 2xx creation response that json.Unmarshal accepted
    linked,         \* items whose Issues.Edit call succeeded
    linkFailed      \* items whose Issues.Edit call failed after a 2xx creation

sumVars == <<frags, sent, ppc, genRes, errChan, streamClosed, cpc, wake, got,
             fullResponse, ret, ctxDone, ctxInFlight, nilSeen, closes, sendOnClosed>>
chanHist == <<closes, sendOnClosed>>
reqVars == <<ferr, summary, payload, resp, editReq>>
pollVars == <<exit, sumOK, jiraURLok, sched, tickerC, pc, issues, idx, cerr, jiraKey,
              processedIssueIDs, reqVars>>
histVars == <<cycles, ticksTaken, examined, failed, failedPrev, sumCalls, createCalls,
              created2xx, linkCalls, parsed2xx, linked, linkFailed>>
vars == <<sumVars, prog, pollVars, histVars>>

(***************************************************************************)
(* Bounds                                                                  *)
(***************************************************************************)
MaxFrags == 2       \* fragments per generation
MaxCycles == 2      \* pollGitHub calls per behaviour
MaxList == 3        \* length of a fetched list

(***************************************************************************)
(* Summarizer                                                              *)
(***************************************************************************)
\* Text is a sequence of characters; a fragment is a piece of text.
FragVals == {<<"a">>, <<"b">>, <<"a", "b">>}
FragSeqs == UNION {[1..n -> FragVals] : n \in 0..MaxFrags}

\* Errors are chains of messages; nil is the empty chain.
NilErr == <<>>
GenErr == <<"generate failed">>
CtxErr == <<"context done">>
\* fmt.Errorf("failed to generate summary: %w", err)
Wrap(e) == <<"failed to generate summary">> \o e

\* What the strings.Builder holds after WriteString(s): a prepending variant first.
WriteString_Prepend(buf, s) == s \o buf
WriteString(buf, s) == buf \o s

RECURSIVE Concat(_)
Concat(fs) == IF fs = <<>> THEN <<>> ELSE Head(fs) \o Concat(Tail(fs))

NoRet == [text |-> <<>>, err |-> NilErr]

InitSumVars(fs) ==
    /\ frags = fs
    /\ sent = 0
    /\ ppc = "gen"
    /\ genRes = "running"
    /\ errChan = [buf |-> <<>>, closed |-> FALSE]
    /\ streamClosed = FALSE
    /\ cpc = "select"
    /\ wake = "none"
    /\ got = <<>>
    /\ fullResponse = <<>>
    /\ ret = NoRet
    /\ ctxDone = FALSE
    /\ ctxInFlight = FALSE
    /\ nilSeen = FALSE
    /\ closes = <<>>
    /\ sendOnClosed = {}

\* ---- the producer goroutine: go func() { defer close(stream); ... }() ----

\* The error the goroutine sends on errChan for a failed generation call.
GenError == IF genRes = "ctx" THEN CtxErr ELSE GenErr

\* The endpoint delivers the next fragment and Generate calls the callback, whose
\* select either hands the response to a consumer waiting in its select, or takes
\* ctx.Done() and returns ctx.Err() (which Generate returns), or blocks.
ProducerCallback ==
    /\ ppc = "gen"
    /\ sent < Len(frags)
    /\ IF cpc = "parked"
       THEN /\ got' = frags[sent + 1]
            /\ sent' = sent + 1
            /\ cpc' = "append"
            /\ UNCHANGED <<ppc, genRes>>
       ELSE IF ctxDone
       THEN /\ genRes' = "ctx"
            /\ ppc' = "senderr"
            /\ UNCHANGED <<got, sent, cpc>>
       ELSE /\ ppc' = "cbparked"
            /\ UNCHANGED <<got, sent, cpc, genRes>>
    /\ sendOnClosed' = sendOnClosed \cup (IF streamClosed THEN {"stream"} ELSE {})
    /\ UNCHANGED <<frags, errChan, streamClosed, wake, fullResponse, ret, ctxDone,
                   ctxInFlight, nilSeen, closes>>
    /\ UNCHANGED <<prog, pollVars, histVars>>

\* A callback blocked in its select was woken by ctx.Done(): it returns ctx.Err().
ProducerCtx ==
    /\ ppc = "cbctx"
    /\ genRes' = "ctx"
    /\ ppc' = "senderr"
    /\ UNCHANGED <<frags, sent, errChan, streamClosed, cpc, wake, got, fullResponse,
                   ret, ctxDone, ctxInFlight, nilSeen>>
    /\ UNCHANGED <<chanHist, prog, pollVars, histVars>>

\* Generate returns an error of its own: the endpoint or the transport failed, or
\* the request's context is done.
GenFail ==
    /\ ppc = "gen"
    /\ \E e \in {"err"} \cup (IF ctxDone THEN {"ctx"} ELSE {}) : genRes' = e
    /\ ppc' = "senderr"
    /\ UNCHANGED <<frags, sent, errChan, streamClosed, cpc, wake, got, fullResponse,
                   ret, ctxDone, ctxInFlight, nilSeen>>
    /\ UNCHANGED <<chanHist, prog, pollVars, histVars>>

\* Generate returns nil: the endpoint signalled the end of the stream after the
\* callback returned nil for every fragment.
GenDone ==
    /\ ppc = "gen"
    /\ sent = Len(frags)
    /\ genRes' = "ok"
    /\ ppc' = "closeerr"
    /\ UNCHANGED <<frags, sent, errChan, streamClosed, cpc, wake, got, fullResponse,
                   ret, ctxDone, ctxInFlight, nilSeen>>
    /\ UNCHANGED <<chanHist, prog, pollVars, histVars>>

\* errChan made without a buffer: the send waits for a consumer blocked in its select.
SendErr_Unbuffered ==
    /\ ppc = "senderr"
    /\ cpc = "parked"
    /\ errChan' = [errChan EXCEPT !.buf = Append(@, GenError)]
    /\ cpc' = "woken"
    /\ wake' = "err"
    /\ ppc' = "closeerr"
    /\ sendOnClosed' = sendOnClosed \cup (IF errChan.closed THEN {"errChan"} ELSE {})
    /\ UNCHANGED <<frags, sent, genRes, streamClosed, got, fullResponse, ret, ctxDone,
                   ctxInFlight, nilSeen, closes>>
    /\ UNCHANGED <<prog, pollVars, histVars>>

\* errChan <- err. The channel has room for one value; a consumer waiting in its
\* select is woken for this case.
SendErr ==
    /\ ppc = "senderr"
    /\ Len(errChan.buf) < 1
    /\ errChan' = [errChan EXCEPT !.buf = Append(@, GenError)]
    /\ IF cpc = "parked"
       THEN cpc' = "woken" /\ wake' = "err"
       ELSE UNCHANGED <<cpc, wake>>
    /\ ppc' = "closeerr"
    /\ sendOnClosed' = sendOnClosed \cup (IF errChan.closed THEN {"errChan"} ELSE {})
    /\ UNCHANGED <<frags, sent, genRes, streamClosed, got, fullResponse, ret, ctxDone,
                   ctxInFlight, nilSeen, closes>>
    /\ UNCHANGED <<prog, pollVars, histVars>>

\* close(errChan)
CloseErrChan ==
    /\ ppc = "closeerr"
    /\ errChan' = [errChan EXCEPT !.closed = TRUE]
    /\ IF cpc = "parked"
       THEN cpc' = "woken" /\ wake' = "nil"
       ELSE UNCHANGED <<cpc, wake>>
    /\ ppc' = "closestream"
    /\ closes' = Append(closes, <<"errChan", "producer">>)
    /\ UNCHANGED <<frags, sent, genRes, streamClosed, got, fullResponse, ret, ctxDone,
                   ctxInFlight, nilSeen, sendOnClosed>>
    /\ UNCHANGED <<prog, pollVars, histVars>>

\* The deferred close(stream).
CloseStream ==
    /\ ppc = "closestream"
    /\ streamClosed' = TRUE
    /\ IF cpc = "parked"
       THEN cpc' = "woken" /\ wake' = "closed"
       ELSE UNCHANGED <<cpc, wake>>
    /\ ppc' = "done"
    /\ closes' = Append(closes, <<"stream", "producer">>)
    /\ UNCHANGED <<frags, sent, genRes, errChan, got, fullResponse, ret, ctxDone,
                   ctxInFlight, nilSeen, sendOnClosed>>
    /\ UNCHANGED <<prog, pollVars, histVars>>

\* ---- the context: the caller cancels it or its deadline fires ----
CtxFire ==
    /\ ~ctxDone
    /\ ctxDone' = TRUE
    /\ ctxInFlight' = (genRes = "running" /\ cpc # "done")
    /\ IF cpc = "parked"
       THEN cpc' = "woken" /\ wake' = "ctx"
       ELSE UNCHANGED <<cpc, wake>>
    /\ ppc' = IF ppc = "cbparked" THEN "cbctx" ELSE ppc
    /\ UNCHANGED <<frags, sent, genRes, errChan, streamClosed, got, fullResponse, ret,
                   nilSeen>>
    /\ UNCHANGED <<chanHist, prog, pollVars, histVars>>

\* ---- the consumer: for { select { ... } } ----

\* The consumer takes select case c: it chose it among the ready cases, or it was
\* woken for it.
Takes(c) == IF cpc = "woken" THEN wake = c ELSE cpc = "select"

Return(text, err) ==
    /\ ret' = [text |-> text, err |-> err]
    /\ cpc' = "done"
    /\ wake' = "none"

\* case err := <-errChan, a value: return "", fmt.Errorf(...)
ConsumerRecvErr ==
    /\ Takes("err")
    /\ errChan.buf # <<>>
    /\ errChan' = [errChan EXCEPT !.buf = Tail(@)]
    /\ Return(<<>>, Wrap(Head(errChan.buf)))
    /\ UNCHANGED <<frags, sent, ppc, genRes, streamClosed, got, fullResponse, ctxDone,
                   ctxInFlight, nilSeen>>
    /\ UNCHANGED <<chanHist, prog, pollVars, histVars>>

\* case err := <-errChan on the closed, drained channel: err is nil, the loop goes on.
ConsumerRecvNil ==
    /\ Takes("nil")
    /\ errChan.buf = <<>>
    /\ errChan.closed
    /\ nilSeen' = TRUE
    /\ cpc' = "select"
    /\ wake' = "none"
    /\ UNCHANGED <<frags, sent, ppc, genRes, errChan, streamClosed, got, fullResponse,
                   ret, ctxDone, ctxInFlight>>
    /\ UNCHANGED <<chanHist, prog, pollVars, histVars>>

\* case response, ok := <-stream with the callback blocked on its send.
ConsumerRecvFrag ==
    /\ cpc = "select"
    /\ ppc = "cbparked"
    /\ got' = frags[sent + 1]
    /\ sent' = sent + 1
    /\ ppc' = "gen"
    /\ cpc' = "append"
    /\ UNCHANGED <<frags, genRes, errChan, streamClosed, wake, fullResponse, ret,
                   ctxDone, ctxInFlight, nilSeen>>
    /\ UNCHANGED <<chanHist, prog, pollVars, histVars>>

\* fullResponse.WriteString(response.Response)
ConsumerAppend ==
    /\ cpc = "append"
    /\ fullResponse' = WriteString(fullResponse, got)
    /\ got' = <<>>
    /\ cpc' = "select"
    /\ UNCHANGED <<frags, sent, ppc, genRes, errChan, streamClosed, wake, ret, ctxDone,
                   ctxInFlight, nilSeen>>
    /\ UNCHANGED <<chanHist, prog, pollVars, histVars>>

\* case response, ok := <-stream on the closed channel: return fullResponse.String(), nil
ConsumerRecvClosed ==
    /\ Takes("closed")
    /\ streamClosed
    /\ Return(fullResponse, NilErr)
    /\ UNCHANGED <<frags, sent, ppc, genRes, errChan, streamClosed, got, fullResponse,
                   ctxDone, ctxInFlight, nilSeen>>
    /\ UNCHANGED <<chanHist, prog, pollVars, histVars>>

\* A consumer that closes stream itself when it returns on the done context.
ConsumerCtx_Close ==
    /\ Takes("ctx")
    /\ ctxDone
    /\ streamClosed' = TRUE
    /\ closes' = Append(closes, <<"stream", "consumer">>)
    /\ Return(<<>>, CtxErr)
    /\ UNCHANGED <<frags, sent, ppc, genRes, errChan, got, fullResponse, ctxDone,
                   ctxInFlight, nilSeen, sendOnClosed>>
    /\ UNCHANGED <<prog, pollVars, histVars>>

\* case <-ctx.Done(): return "", ctx.Err()
ConsumerCtx ==
    /\ Takes("ctx")
    /\ ctxDone
    /\ Return(<<>>, CtxErr)
    /\ UNCHANGED <<frags, sent, ppc, genRes, errChan, streamClosed, got, fullResponse,
                   ctxDone, ctxInFlight, nilSeen>>
    /\ UNCHANGED <<chanHist, prog, pollVars, histVars>>

\* No case is ready: the consumer blocks in the select.
ConsumerPark ==
    /\ cpc = "select"
    /\ errChan.buf = <<>>
    /\ ~errChan.closed
    /\ ppc # "cbparked"
    /\ ~streamClosed
    /\ ~ctxDone
    /\ cpc' = "parked"
    /\ UNCHANGED <<frags, sent, ppc, genRes, errChan, streamClosed, wake, got,
                   fullResponse, ret, ctxDone, ctxInFlight, nilSeen>>
    /\ UNCHANGED <<chanHist, prog, pollVars, histVars>>

NextSum ==
    \/ ProducerCallback
    \/ ProducerCtx
    \/ GenFail
    \/ GenDone
    \/ SendErr
    \/ CloseErrChan
    \/ CloseStream
    \/ CtxFire
    \/ ConsumerRecvErr
    \/ ConsumerRecvNil
    \/ ConsumerRecvFrag
    \/ ConsumerAppend
    \/ ConsumerRecvClosed
    \/ ConsumerCtx
    \/ ConsumerPark

(***************************************************************************)
(* Poller                                                                  *)
(***************************************************************************)
\* The items ListByRepo can return: issues and pull requests, by ID.
IssueIDs == {1, 2}
PullIDs == {3}
Items == IssueIDs \cup PullIDs

\* issue.IsPullRequest()
IsPullRequest(i) == i \in PullIDs

\* The lists a fetch can return: distinct items, at most MaxList of them.
Lists ==
    {l \in UNION {[1..n -> Items] : n \in 0..MaxList} :
        \A j, k \in 1..Len(l) : j # k => l[j] # l[k]}

\* The goroutines that can run pollGitHub: main, and the one `go pollGitHub()` starts.
G == {"main", "go"}

\* Response bodies of a 2xx answer from Jira.
BodyGarbage == "<html>"
BodyNoKey == "{}"
BodyKey == "{\"key\":\"GT-1\"}"
Bodies == {BodyGarbage, BodyNoKey, BodyKey}

\* json.Unmarshal(body, &jiraResponse) into struct{ Key string `json:"key"` }: it
\* fails on a body that is not a JSON object; an absent key leaves Key empty.
Unmarshal(body) ==
    CASE body = BodyGarbage -> [err |-> TRUE, Key |-> ""]
      [] body = BodyNoKey -> [err |-> FALSE, Key |-> ""]
      [] body = BodyKey -> [err |-> FALSE, Key |-> "GT-1"]

Zero == [i \in Items |-> 0]

\* The fields of a fetched item the program reads. Text is a sequence of pieces.
Number(i) == IF i = 1 THEN "41" ELSE IF i = 2 THEN "42" ELSE "43"
Title(i) == IF i = 1 THEN "crash on start" ELSE IF i = 2 THEN "typo" ELSE "fix typo"
HTMLURL(i) == IF i = 1 THEN "https://github/o/r/issues/41"
              ELSE IF i = 2 THEN "https://github/o/r/issues/42"
              ELSE "https://github/o/r/pull/43"
\* *issue.Body where the pointer is not nil: item 2 has the empty description.
Body(i) == IF i = 2 THEN <<>> ELSE <<"steps to reproduce">>

jiraBaseURL == "JIRA_BASE_URL"
jiraProjectKey == "GT"
jiraIssueType == "Task"

\* The text the summarizer returns for item i in the pollGitHub call numbered c: the
\* model endpoint's output, told apart by the request it answers.
CycleName(c) == IF c = 0 THEN "c0" ELSE IF c = 1 THEN "c1" ELSE IF c = 2 THEN "c2"
                ELSE IF c = 3 THEN "c3" ELSE "c4"
SummaryText(i, c) == <<"summary of #", Number(i), CycleName(c)>>

\* A description that leaves the summary out.
Description_NoSummary(u, s) == <<"Imported from GitHub: ", u>>

\* fmt.Sprintf("Imported from GitHub: %s\n\nSummarized Description:\n%s", u, s)
Description(u, s) ==
    <<"Imported from GitHub: ", u, "\n\nSummarized Description:\n">> \o s

\* The payload createJiraIssue builds for item i and summary s.
Payload(i, s) ==
    [fields |->
        [project |-> [key |-> jiraProjectKey],
         summary |-> <<"GitHub Issue #", Number(i), ": ", Title(i)>>,
         description |-> Description(HTMLURL(i), s),
         issuetype |-> [name |-> jiraIssueType]]]
NoPayload == <<>>

\* updateGitHubIssueWithJiraLink: the new description of an issue with body b, for
\* the Jira key k.
NewDescription(b, k) ==
    (IF b # <<>> THEN b \o <<"\n\n">> ELSE b)
        \o <<"---\nLinked Jira Issue: [", k, "](", jiraBaseURL, "/browse/", k, ")">>

InitPollVars ==
    /\ exit = "no"
    /\ tickerC = 0
    /\ pc = [t \in G |-> "idle"]
    /\ issues = [t \in G |-> <<>>]
    /\ idx = [t \in G |-> 0]
    /\ cerr = [t \in G |-> "nil"]
    /\ jiraKey = [t \in G |-> ""]
    /\ processedIssueIDs = [i \in Items |-> FALSE]
    /\ ferr = [t \in G |-> FALSE]
    /\ summary = [t \in G |-> <<>>]
    /\ payload = [t \in G |-> NoPayload]
    /\ resp = [t \in G |-> ""]
    /\ editReq = [t \in G |-> <<>>]
    /\ cycles = 0
    /\ ticksTaken = 0
    /\ examined = [t \in G |-> {}]
    /\ failed = [t \in G |-> {}]
    /\ failedPrev = {}
    /\ sumCalls = Zero
    /\ createCalls = Zero
    /\ created2xx = Zero
    /\ linkCalls = Zero
    /\ parsed2xx = {}
    /\ linked = {}
    /\ linkFailed = {}

Running == exit = "no"

\* The item the range loop of goroutine t is at.
Cur(t) == issues[t][idx[t]]

\* The state of goroutine t when a pollGitHub call begins.
Begin(t) ==
    /\ pc' = [pc EXCEPT ![t] = "fetch"]
    /\ issues' = [issues EXCEPT ![t] = <<>>]
    /\ idx' = [idx EXCEPT ![t] = 0]
    /\ examined' = [examined EXCEPT ![t] = {}]
    /\ failed' = [failed EXCEPT ![t] = {}]
    /\ failedPrev' = failedPrev \cup {issues[t][k] : k \in failed[t]}
    /\ cycles' = cycles + 1

\* pollGitHub returns in goroutine t; main goes on to `for range ticker.C`.
Returns(t) ==
    /\ pc' = [pc EXCEPT ![t] = "idle"]
    /\ sched' = IF t = "main" THEN "range" ELSE sched

\* The loop body of goroutine t ends (or continues): the next item.
NextItem(t) ==
    /\ pc' = [pc EXCEPT ![t] = "scan"]
    /\ idx' = [idx EXCEPT ![t] = @ + 1]
    /\ summary' = [summary EXCEPT ![t] = <<>>]
    /\ payload' = [payload EXCEPT ![t] = NoPayload]
    /\ resp' = [resp EXCEPT ![t] = ""]
    /\ editReq' = [editReq EXCEPT ![t] = <<>>]

\* ---- main() of main.go ----

\* summarizer.New succeeds; time.NewTicker(1 * time.Minute).
NewOK ==
    /\ Running
    /\ sched = "new"
    /\ sumOK' = TRUE
    /\ sched' = "initial"
    /\ UNCHANGED <<exit, jiraURLok, tickerC, pc, issues, idx, cerr, jiraKey,
                   processedIssueIDs, cycles, ticksTaken, examined, failed, failedPrev,
                   sumCalls, createCalls, created2xx, linkCalls, parsed2xx, linked,
                   linkFailed>>
    /\ UNCHANGED <<sumVars, prog, reqVars>>

\* summarizer.New fails: log.Fatalf ends the process.
NewFail ==
    /\ Running
    /\ sched = "new"
    /\ exit' = "new"
    /\ sched' = "exited"
    /\ UNCHANGED <<sumOK, jiraURLok, tickerC, pc, issues, idx, cerr, jiraKey,
                   processedIssueIDs, cycles, ticksTaken, examined, failed, failedPrev,
                   sumCalls, createCalls, created2xx, linkCalls, parsed2xx, linked,
                   linkFailed>>
    /\ UNCHANGED <<sumVars, prog, reqVars>>

\* The ticker sends on ticker.C, which holds one tick; a tick that finds it full is
\* dropped.
Tick ==
    /\ Running
    /\ sched # "new"
    /\ tickerC = 0
    /\ tickerC' = 1
    /\ UNCHANGED <<exit, sumOK, jiraURLok, sched, pc, issues, idx, cerr, jiraKey,
                   processedIssueIDs, cycles, ticksTaken, examined, failed, failedPrev,
                   sumCalls, createCalls, created2xx, linkCalls, parsed2xx, linked,
                   linkFailed>>
    /\ UNCHANGED <<sumVars, prog, reqVars>>

\* The call `go pollGitHub()` in place of the initial call.
InitialPoll_Go ==
    /\ Running
    /\ sched = "initial"
    /\ cycles < MaxCycles
    /\ Begin("go")
    /\ sched' = "range"
    /\ UNCHANGED <<exit, sumOK, jiraURLok, tickerC, cerr, jiraKey, processedIssueIDs,
                   ticksTaken, sumCalls, createCalls, created2xx, linkCalls, parsed2xx,
                   linked, linkFailed>>
    /\ UNCHANGED <<sumVars, prog, reqVars>>

\* The initial pollGitHub(sum) call.
InitialPoll ==
    /\ Running
    /\ sched = "initial"
    /\ cycles < MaxCycles
    /\ Begin("main")
    /\ sched' = "polling"
    /\ UNCHANGED <<exit, sumOK, jiraURLok, tickerC, cerr, jiraKey, processedIssueIDs,
                   ticksTaken, sumCalls, createCalls, created2xx, linkCalls, parsed2xx,
                   linked, linkFailed>>
    /\ UNCHANGED <<sumVars, prog, reqVars>>

\* for range ticker.C { pollGitHub(sum) }: a tick is received and the call begins.
TickPoll ==
    /\ Running
    /\ sched = "range"
    /\ tickerC = 1
    /\ cycles < MaxCycles
    /\ tickerC' = 0
    /\ ticksTaken' = ticksTaken + 1
    /\ Begin("main")
    /\ sched' = "polling"
    /\ UNCHANGED <<exit, sumOK, jiraURLok, cerr, jiraKey, processedIssueIDs, sumCalls,
                   createCalls, created2xx, linkCalls, parsed2xx, linked, linkFailed>>
    /\ UNCHANGED <<sumVars, prog, reqVars>>

\* ---- pollGitHub ----

\* A log.Fatalf in place of the log and return.
FetchFail_Fatal(t) ==
    /\ Running
    /\ pc[t] = "fetch"
    /\ ferr' = [ferr EXCEPT ![t] = TRUE]
    /\ exit' = "fetch"
    /\ UNCHANGED <<sumOK, jiraURLok, sched, tickerC, pc, issues, idx, cerr, jiraKey,
                   processedIssueIDs, cycles, ticksTaken, examined, failed, failedPrev,
                   sumCalls, createCalls, created2xx, linkCalls, parsed2xx, linked,
                   linkFailed>>
    /\ UNCHANGED <<sumVars, prog, summary, payload, resp, editReq>>

\* client.Issues.ListByRepo fails: log and return.
FetchFail(t) ==
    /\ Running
    /\ pc[t] = "fetch"
    /\ ferr' = [ferr EXCEPT ![t] = TRUE]
    /\ Returns(t)
    /\ UNCHANGED <<exit, sumOK, jiraURLok, tickerC, issues, idx, cerr, jiraKey,
                   processedIssueIDs, cycles, ticksTaken, examined, failed, failedPrev,
                   sumCalls, createCalls, created2xx, linkCalls, parsed2xx, linked,
                   linkFailed>>
    /\ UNCHANGED <<sumVars, prog, summary, payload, resp, editReq>>

\* client.Issues.ListByRepo returns a list.
FetchOK(t) ==
    /\ Running
    /\ pc[t] = "fetch"
    /\ \E l \in Lists : issues' = [issues EXCEPT ![t] = l]
    /\ ferr' = [ferr EXCEPT ![t] = FALSE]
    /\ idx' = [idx EXCEPT ![t] = 1]
    /\ pc' = [pc EXCEPT ![t] = "scan"]
    /\ UNCHANGED <<exit, sumOK, jiraURLok, sched, tickerC, cerr, jiraKey,
                   processedIssueIDs, cycles, ticksTaken, examined, failed, failedPrev,
                   sumCalls, createCalls, created2xx, linkCalls, parsed2xx, linked,
                   linkFailed>>
    /\ UNCHANGED <<sumVars, prog, summary, payload, resp, editReq>>

\* The range loop is past the last item: pollGitHub returns.
ScanEnd(t) ==
    /\ Running
    /\ pc[t] = "scan"
    /\ idx[t] > Len(issues[t])
    /\ Returns(t)
    /\ UNCHANGED <<exit, sumOK, jiraURLok, tickerC, issues, idx, cerr, jiraKey,
                   processedIssueIDs, cycles, ticksTaken, examined, failed, failedPrev,
                   sumCalls, createCalls, created2xx, linkCalls, parsed2xx, linked,
                   linkFailed>>
    /\ UNCHANGED <<sumVars, prog, reqVars>>

\* A `continue` in place of the break.
ScanPR_Continue(t) ==
    /\ Running
    /\ pc[t] = "scan"
    /\ idx[t] <= Len(issues[t])
    /\ IsPullRequest(Cur(t))
    /\ NextItem(t)
    /\ UNCHANGED <<exit, sumOK, jiraURLok, sched, tickerC, issues, cerr, jiraKey,
                   processedIssueIDs, cycles, ticksTaken, examined, failed, failedPrev,
                   sumCalls, createCalls, created2xx, linkCalls, parsed2xx, linked,
                   linkFailed>>
    /\ UNCHANGED <<sumVars, prog, ferr>>

\* if issue.IsPullRequest() { break }: the loop ends and pollGitHub returns.
ScanPR(t) ==
    /\ Running
    /\ pc[t] = "scan"
    /\ idx[t] <= Len(issues[t])
    /\ IsPullRequest(Cur(t))
    /\ Returns(t)
    /\ UNCHANGED <<exit, sumOK, jiraURLok, tickerC, issues, idx, cerr, jiraKey,
                   processedIssueIDs, cycles, ticksTaken, examined, failed, failedPrev,
                   sumCalls, createCalls, created2xx, linkCalls, parsed2xx, linked,
                   linkFailed>>
    /\ UNCHANGED <<sumVars, prog, reqVars>>

\* An issue: context.WithTimeout and the call of sum.SummarizeWithCustomPrompt.
ScanIssue(t) ==
    /\ Running
    /\ pc[t] = "scan"
    /\ idx[t] <= Len(issues[t])
    /\ ~IsPullRequest(Cur(t))
    /\ sumOK
    /\ sumCalls' = [sumCalls EXCEPT ![Cur(t)] = @ + 1]
    /\ examined' = [examined EXCEPT ![t] = @ \cup {idx[t]}]
    /\ pc' = [pc EXCEPT ![t] = "summary"]
    /\ UNCHANGED <<exit, sumOK, jiraURLok, sched, tickerC, issues, idx, cerr, jiraKey,
                   processedIssueIDs, cycles, ticksTaken, failed, failedPrev,
                   createCalls, created2xx, linkCalls, parsed2xx, linked, linkFailed>>
    /\ UNCHANGED <<sumVars, prog, reqVars>>

\* issue.Body is nil (GitHub sends "body": null for an issue without a description):
\* evaluating *issue.Body for the summary call panics and the process ends.
NilBody(t) ==
    /\ Running
    /\ pc[t] = "scan"
    /\ idx[t] <= Len(issues[t])
    /\ ~IsPullRequest(Cur(t))
    /\ exit' = "nilbody"
    /\ UNCHANGED <<sumOK, jiraURLok, sched, tickerC, pc, issues, idx, cerr, jiraKey,
                   processedIssueIDs, cycles, ticksTaken, examined, failed, failedPrev,
                   sumCalls, createCalls, created2xx, linkCalls, parsed2xx, linked,
                   linkFailed>>
    /\ UNCHANGED <<sumVars, prog, reqVars>>

\* A variant that marks the issue processed when its summary fails.
SummaryFail_Mark(t) ==
    /\ Running
    /\ pc[t] = "summary"
    /\ failed' = [failed EXCEPT ![t] = @ \cup {idx[t]}]
    /\ processedIssueIDs' = [processedIssueIDs EXCEPT ![Cur(t)] = TRUE]
    /\ NextItem(t)
    /\ UNCHANGED <<exit, sumOK, jiraURLok, sched, tickerC, issues, cerr, jiraKey,
                   cycles, ticksTaken, examined, failedPrev, sumCalls, createCalls,
                   created2xx, linkCalls, parsed2xx, linked, linkFailed>>
    /\ UNCHANGED <<sumVars, prog, ferr>>

\* A summary failure that is logged without the `continue`.
SummaryFail_Proceed(t) ==
    /\ Running
    /\ pc[t] = "summary"
    /\ failed' = [failed EXCEPT ![t] = @ \cup {idx[t]}]
    /\ IF processedIssueIDs[Cur(t)]
       THEN NextItem(t)
       ELSE /\ pc' = [pc EXCEPT ![t] = "create"]
            /\ UNCHANGED <<idx, summary, payload, resp, editReq>>
    /\ UNCHANGED <<exit, sumOK, jiraURLok, sched, tickerC, issues, cerr, jiraKey,
                   processedIssueIDs, cycles, ticksTaken, examined, failedPrev, sumCalls,
                   createCalls, created2xx, linkCalls, parsed2xx, linked, linkFailed>>
    /\ UNCHANGED <<sumVars, prog, ferr>>

\* The summary call returns an error (a failure or the timeout): log and continue.
SummaryFail(t) ==
    /\ Running
    /\ pc[t] = "summary"
    /\ failed' = [failed EXCEPT ![t] = @ \cup {idx[t]}]
    /\ NextItem(t)
    /\ UNCHANGED <<exit, sumOK, jiraURLok, sched, tickerC, issues, cerr, jiraKey,
                   processedIssueIDs, cycles, ticksTaken, examined, failedPrev,
                   sumCalls, createCalls, created2xx, linkCalls, parsed2xx, linked,
                   linkFailed>>
    /\ UNCHANGED <<sumVars, prog, ferr>>

\* if !processedIssueIDs[*issue.ID]: the ledger lookup, and a variant that never
\* finds an entry.
AlreadyProcessed_Never(i) == FALSE
AlreadyProcessed(i) == processedIssueIDs[i]

\* The summary call returns nil: the ledger is read; a processed issue is skipped,
\* any other enters createJiraIssue.
SummaryOK(t) ==
    /\ Running
    /\ pc[t] = "summary"
    /\ IF AlreadyProcessed(Cur(t))
       THEN NextItem(t)
       ELSE /\ pc' = [pc EXCEPT ![t] = "create"]
            /\ idx' = idx
            /\ summary' = [summary EXCEPT ![t] = SummaryText(Cur(t), cycles)]
            /\ UNCHANGED <<payload, resp, editReq>>
    /\ UNCHANGED <<exit, sumOK, jiraURLok, sched, tickerC, issues, cerr, jiraKey,
                   processedIssueIDs, cycles, ticksTaken, examined, failed, failedPrev,
                   sumCalls, createCalls, created2xx, linkCalls, parsed2xx, linked,
                   linkFailed>>
    /\ UNCHANGED <<sumVars, prog, ferr>>

\* createJiraIssue: http.NewRequest rejects the URL; the error is returned.
NewRequestFail(t) ==
    /\ Running
    /\ pc[t] = "create"
    /\ ~jiraURLok
    /\ payload' = [payload EXCEPT ![t] = Payload(Cur(t), summary[t])]
    /\ cerr' = [cerr EXCEPT ![t] = "newrequest"]
    /\ pc' = [pc EXCEPT ![t] = "returned"]
    /\ UNCHANGED <<exit, sumOK, jiraURLok, sched, tickerC, issues, idx, jiraKey,
                   processedIssueIDs, cycles, ticksTaken, examined, failed, failedPrev,
                   sumCalls, createCalls, created2xx, linkCalls, parsed2xx, linked,
                   linkFailed>>
    /\ UNCHANGED <<sumVars, prog, ferr, summary, resp, editReq>>

\* createJiraIssue: the payload is built and client.Do sends the POST.
PostSend(t) ==
    /\ Running
    /\ pc[t] = "create"
    /\ jiraURLok
    /\ payload' = [payload EXCEPT ![t] = Payload(Cur(t), summary[t])]
    /\ createCalls' = [createCalls EXCEPT ![Cur(t)] = @ + 1]
    /\ pc' = [pc EXCEPT ![t] = "post"]
    /\ UNCHANGED <<exit, sumOK, jiraURLok, sched, tickerC, issues, idx, cerr, jiraKey,
                   processedIssueIDs, cycles, ticksTaken, examined, failed, failedPrev,
                   sumCalls, created2xx, linkCalls, parsed2xx, linked, linkFailed>>
    /\ UNCHANGED <<sumVars, prog, ferr, summary, resp, editReq>>

\* A createJiraIssue that goes on to the link-back on a status outside 2xx.
PostFail_Link(t) ==
    /\ Running
    /\ pc[t] = "post"
    /\ linkCalls' = [linkCalls EXCEPT ![Cur(t)] = @ + 1]
    /\ editReq' = [editReq EXCEPT ![t] = NewDescription(Body(Cur(t)), jiraKey[t])]
    /\ pc' = [pc EXCEPT ![t] = "edit"]
    /\ UNCHANGED <<exit, sumOK, jiraURLok, sched, tickerC, issues, idx, cerr, jiraKey,
                   processedIssueIDs, cycles, ticksTaken, examined, failed, failedPrev,
                   sumCalls, createCalls, created2xx, parsed2xx, linked, linkFailed>>
    /\ UNCHANGED <<sumVars, prog, ferr, summary, payload, resp>>

\* client.Do fails, or Jira answers with a status outside 2xx: the error is returned.
PostFail(t) ==
    /\ Running
    /\ pc[t] = "post"
    /\ \E e \in {"transport", "status"} : cerr' = [cerr EXCEPT ![t] = e]
    /\ pc' = [pc EXCEPT ![t] = "returned"]
    /\ UNCHANGED <<exit, sumOK, jiraURLok, sched, tickerC, issues, idx, jiraKey,
                   processedIssueIDs, cycles, ticksTaken, examined, failed, failedPrev,
                   sumCalls, createCalls, created2xx, linkCalls, parsed2xx, linked,
                   linkFailed>>
    /\ UNCHANGED <<sumVars, prog, reqVars>>

\* Jira answers 2xx: the body is parsed; a parse error is returned, otherwise
\* updateGitHubIssueWithJiraLink is called with the key and sends Issues.Edit.
Post2xx(t) ==
    /\ Running
    /\ pc[t] = "post"
    /\ created2xx' = [created2xx EXCEPT ![Cur(t)] = @ + 1]
    /\ \E body \in Bodies :
          LET r == Unmarshal(body) IN
          /\ resp' = [resp EXCEPT ![t] = body]
          /\ IF r.err
             THEN /\ cerr' = [cerr EXCEPT ![t] = "unmarshal"]
                  /\ pc' = [pc EXCEPT ![t] = "returned"]
                  /\ UNCHANGED <<jiraKey, parsed2xx, linkCalls, editReq>>
             ELSE /\ jiraKey' = [jiraKey EXCEPT ![t] = r.Key]
                  /\ parsed2xx' = parsed2xx \cup {Cur(t)}
                  /\ linkCalls' = [linkCalls EXCEPT ![Cur(t)] = @ + 1]
                  /\ editReq' = [editReq EXCEPT ![t] =
                                    NewDescription(Body(Cur(t)), r.Key)]
                  /\ pc' = [pc EXCEPT ![t] = "edit"]
                  /\ cerr' = cerr
    /\ UNCHANGED <<exit, sumOK, jiraURLok, sched, tickerC, issues, idx,
                   processedIssueIDs, cycles, ticksTaken, examined, failed, failedPrev,
                   sumCalls, createCalls, linked, linkFailed>>
    /\ UNCHANGED <<sumVars, prog, ferr, summary, payload>>

\* client.Issues.Edit fails: updateGitHubIssueWithJiraLink and createJiraIssue return
\* the error.
EditFail(t) ==
    /\ Running
    /\ pc[t] = "edit"
    /\ linkFailed' = linkFailed \cup {Cur(t)}
    /\ cerr' = [cerr EXCEPT ![t] = "edit"]
    /\ pc' = [pc EXCEPT ![t] = "returned"]
    /\ UNCHANGED <<exit, sumOK, jiraURLok, sched, tickerC, issues, idx, jiraKey,
                   processedIssueIDs, cycles, ticksTaken, examined, failed, failedPrev,
                   sumCalls, createCalls, created2xx, linkCalls, parsed2xx, linked>>
    /\ UNCHANGED <<sumVars, prog, reqVars>>

\* client.Issues.Edit succeeds: createJiraIssue returns nil.
EditOK(t) ==
    /\ Running
    /\ pc[t] = "edit"
    /\ linked' = linked \cup {Cur(t)}
    /\ cerr' = [cerr EXCEPT ![t] = "nil"]
    /\ pc' = [pc EXCEPT ![t] = "returned"]
    /\ UNCHANGED <<exit, sumOK, jiraURLok, sched, tickerC, issues, idx, jiraKey,
                   processedIssueIDs, cycles, ticksTaken, examined, failed, failedPrev,
                   sumCalls, createCalls, created2xx, linkCalls, parsed2xx, linkFailed>>
    /\ UNCHANGED <<sumVars, prog, reqVars>>

\* A ledger that is made anew for the entry.
Mark_Fresh(i) == [j \in Items |-> j = i]

\* processedIssueIDs[*issue.ID] = true
Mark(i) == [processedIssueIDs EXCEPT ![i] = TRUE]

\* A variant that marks the issue processed whatever createJiraIssue returned.
AfterCreate_Always(t) ==
    /\ Running
    /\ pc[t] = "returned"
    /\ processedIssueIDs' = [processedIssueIDs EXCEPT ![Cur(t)] = TRUE]
    /\ failed' = failed
    /\ NextItem(t)
    /\ UNCHANGED <<exit, sumOK, jiraURLok, sched, tickerC, issues, cerr, jiraKey,
                   cycles, ticksTaken, examined, failedPrev, sumCalls, createCalls,
                   created2xx, linkCalls, parsed2xx, linked, linkFailed>>
    /\ UNCHANGED <<sumVars, prog, ferr>>

\* err := createJiraIssue(issue, summary): on nil the issue is marked processed, on an
\* error it is logged; the loop goes on.
AfterCreate(t) ==
    /\ Running
    /\ pc[t] = "returned"
    /\ IF cerr[t] = "nil"
       THEN /\ processedIssueIDs' = Mark(Cur(t))
            /\ failed' = failed
       ELSE /\ failed' = [failed EXCEPT ![t] = @ \cup {idx[t]}]
            /\ processedIssueIDs' = processedIssueIDs
    /\ NextItem(t)
    /\ UNCHANGED <<exit, sumOK, jiraURLok, sched, tickerC, issues, cerr, jiraKey,
                   cycles, ticksTaken, examined, failedPrev, sumCalls, createCalls,
                   created2xx, linkCalls, parsed2xx, linked, linkFailed>>
    /\ UNCHANGED <<sumVars, prog, ferr>>

Next ==
    \/ NewOK
    \/ NewFail
    \/ Tick
    \/ InitialPoll
    \/ TickPoll
    \/ \E t \in G :
        \/ FetchFail(t)
        \/ FetchOK(t)
        \/ ScanEnd(t)
        \/ ScanPR(t)
        \/ ScanIssue(t)
        \/ NilBody(t)
        \/ SummaryFail(t)
        \/ SummaryOK(t)
        \/ NewRequestFail(t)
        \/ PostSend(t)
        \/ PostFail(t)
        \/ Post2xx(t)
        \/ EditFail(t)
        \/ EditOK(t)
        \/ AfterCreate(t)

(***************************************************************************)
(* Specifications                                                          *)
(***************************************************************************)
\* One summarize call, for every fragment sequence the endpoint may emit.
InitSum ==
    /\ prog = "summarizer"
    /\ \E fs \in FragSeqs : InitSumVars(fs)
    /\ InitPollVars
    /\ sumOK = TRUE
    /\ jiraURLok = TRUE
    /\ sched = "none"

SpecSum == InitSum /\ [][NextSum]_vars

\* One summarize call as pollGitHub makes it, under the scheduling the code relies on:
\* each goroutine runs when it can; a select takes each case that stays ready (Go
\* picks among ready cases at random); the context of the call ends (its deadline
\* fires, and the caller cancels it when the call has returned); the generation call
\* returns when its stream has ended and when its context is done.
Fairness ==
    /\ WF_vars(ProducerCtx \/ SendErr \/ CloseErrChan \/ CloseStream)
    /\ WF_vars(GenDone)
    /\ WF_vars(ctxDone /\ (GenFail \/ ProducerCallback))
    /\ WF_vars(CtxFire)
    /\ WF_vars(ConsumerRecvNil \/ ConsumerRecvFrag \/ ConsumerAppend \/ ConsumerPark)
    /\ WF_vars(ConsumerRecvErr)
    /\ WF_vars(ConsumerRecvClosed)
    /\ WF_vars(ConsumerCtx)

SpecSumFair == InitSum /\ [][NextSum]_vars /\ Fairness

\* main.go from the start of main().
Init ==
    /\ prog = "main.go"
    /\ InitSumVars(<<>>)
    /\ InitPollVars
    /\ sumOK = FALSE
    /\ jiraURLok \in BOOLEAN
    /\ sched = "new"

Spec == Init /\ [][Next]_vars

(***************************************************************************)
(* The second entry point (unnamed/part_000)                               *)
(***************************************************************************)
\* main: time.NewTicker, then `go pollGitHub()` for the initial fetch.
StartupPoll ==
    /\ Running
    /\ sched = "initial"
    /\ cycles < MaxCycles
    /\ Begin("go")
    /\ sched' = "range"
    /\ UNCHANGED <<exit, sumOK, jiraURLok, tickerC, cerr, jiraKey, processedIssueIDs,
                   ticksTaken, sumCalls, createCalls, created2xx, linkCalls, parsed2xx,
                   linked, linkFailed>>
    /\ UNCHANGED <<sumVars, prog, reqVars>>

\* sum is nil (the error of summarizer.New was dropped): the method call
\* dereferences it and the panic ends the process.
NilSummarizer(t) ==
    /\ Running
    /\ pc[t] = "scan"
    /\ idx[t] <= Len(issues[t])
    /\ ~IsPullRequest(Cur(t))
    /\ ~sumOK
    /\ exit' = "panic"
    /\ UNCHANGED <<sumOK, jiraURLok, sched, tickerC, pc, issues, idx, cerr, jiraKey,
                   processedIssueIDs, cycles, ticksTaken, examined, failed, failedPrev,
                   sumCalls, createCalls, created2xx, linkCalls, parsed2xx, linked,
                   linkFailed>>
    /\ UNCHANGED <<sumVars, prog, reqVars>>

\* The summary call returns an error: log.Fatalf ends the process.
SummaryFatal(t) ==
    /\ Running
    /\ pc[t] = "summary"
    /\ exit' = "summary"
    /\ UNCHANGED <<sumOK, jiraURLok, sched, tickerC, pc, issues, idx, cerr, jiraKey,
                   processedIssueIDs, cycles, ticksTaken, examined, failed, failedPrev,
                   sumCalls, createCalls, created2xx, linkCalls, parsed2xx, linked,
                   linkFailed>>
    /\ UNCHANGED <<sumVars, prog, reqVars>>

\* createJiraIssue of part_000: Jira answers 2xx and nil is returned; the body is
\* not parsed and the GitHub issue is not updated.
Post2xxPart(t) ==
    /\ Running
    /\ pc[t] = "post"
    /\ created2xx' = [created2xx EXCEPT ![Cur(t)] = @ + 1]
    /\ cerr' = [cerr EXCEPT ![t] = "nil"]
    /\ pc' = [pc EXCEPT ![t] = "returned"]
    /\ UNCHANGED <<exit, sumOK, jiraURLok, sched, tickerC, issues, idx, jiraKey,
                   processedIssueIDs, cycles, ticksTaken, examined, failed, failedPrev,
                   sumCalls, createCalls, linkCalls, parsed2xx, linked, linkFailed>>
    /\ UNCHANGED <<sumVars, prog, reqVars>>

\* Two pollGitHub calls run at once and one writes processedIssueIDs while the other
\* reads or writes it: the map is not synchronised, and the runtime may end the
\* process ("fatal error: concurrent map read and map write"); otherwise the two
\* accesses take effect in either order.
ConcurrentMapAccess ==
    /\ Running
    /\ \E t, u \in G :
          /\ t # u
          /\ pc[t] = "returned" /\ cerr[t] = "nil"
          /\ \/ pc[u] = "summary"
             \/ pc[u] = "returned" /\ cerr[u] = "nil"
    /\ exit' = "maprace"
    /\ UNCHANGED <<sumOK, jiraURLok, sched, tickerC, pc, issues, idx, cerr, jiraKey,
                   processedIssueIDs, cycles, ticksTaken, examined, failed, failedPrev,
                   sumCalls, createCalls, created2xx, linkCalls, parsed2xx, linked,
                   linkFailed>>
    /\ UNCHANGED <<sumVars, prog, reqVars>>

NextPart000 ==
    \/ StartupPoll
    \/ Tick
    \/ TickPoll
    \/ ConcurrentMapAccess
    \/ \E t \in G :
        \/ FetchFail(t)
        \/ FetchOK(t)
        \/ ScanEnd(t)
        \/ ScanPR(t)
        \/ ScanIssue(t)
        \/ NilBody(t)
        \/ NilSummarizer(t)
        \/ SummaryFatal(t)
        \/ SummaryOK(t)
        \/ NewRequestFail(t)
        \/ PostSend(t)
        \/ PostFail(t)
        \/ Post2xxPart(t)
        \/ AfterCreate(t)

\* part_000 from the start of main(); sum was set when the package initialised.
InitPart000 ==
    /\ prog = "part_000"
    /\ InitSumVars(<<>>)
    /\ InitPollVars
    /\ sumOK \in BOOLEAN
    /\ jiraURLok \in BOOLEAN
    /\ sched = "initial"

SpecPart000 == InitPart000 /\ [][NextPart000]_vars

(***************************************************************************)
(* Properties                                                              *)
(***************************************************************************)

\* C1: when a creation got a 2xx response and the link-back update that follows
\* failed, the issue is marked processed once createJiraIssue has returned, and no
\* further creation call is made for it.
C1_PartialSuccessMarked ==
    \A i \in linkFailed :
        /\ (\A t \in G : ~(pc[t] \in {"edit", "returned"} /\ Cur(t) = i))
              => processedIssueIDs[i]
        /\ \A t \in G : ~(pc[t] = "post" /\ Cur(t) = i)

\* C2: an identifier is true in processedIssueIDs only if a creation call for it
\* got a 2xx response that was parsed without error and the link-back update for
\* it succeeded.
C2_LedgerInvariant ==
    \A i \in Items : processedIssueIDs[i] => (i \in parsed2xx /\ i \in linked)

\* An issue is marked after a link-back that failed in the first cycle and
\* succeeded in the second.
C2_Witness ==
    \E i \in IssueIDs : processedIssueIDs[i] /\ i \in linkFailed /\ created2xx[i] = 2

\* C3: the summarize call returns a nil error only when the generation call
\* completed without error; when the generation call returned an error, the call
\* returns a non-nil error and the empty string.
C3_ErrorPropagates ==
    /\ (cpc = "done" /\ ret.err = NilErr) => genRes = "ok"
    /\ (cpc = "done" /\ genRes \in {"err", "ctx"}) => (ret.err # NilErr /\ ret.text = <<>>)

\* C4: when the context fired while the generation call was running and the
\* consumer had not returned, and the generation call did not then complete
\* normally, the call returns a non-nil error and the empty string.
C4_CancelDiscards ==
    (cpc = "done" /\ ctxInFlight /\ genRes # "ok")
        => (ret.err # NilErr /\ ret.text = <<>>)

\* C5: when the generation call completed normally and the context has not fired,
\* the call returns nil and exactly the concatenation of the fragments in order;
\* a nil error is returned only on the closed stream, with every received fragment
\* appended.
C5_StreamAssembly ==
    /\ (cpc = "done" /\ genRes = "ok" /\ ~ctxDone)
          => (ret.err = NilErr /\ ret.text = Concat(frags))
    /\ (cpc = "done" /\ ret.err = NilErr)
          => (streamClosed /\ got = <<>> /\ ret.text = Concat(SubSeq(frags, 1, sent)))

\* Two different fragments were assembled, after the consumer had received nil from
\* the closed errChan.
C5_Witness ==
    /\ cpc = "done"
    /\ genRes = "ok"
    /\ ~ctxDone
    /\ nilSeen
    /\ Len(frags) = 2
    /\ frags[1] # frags[2]
    /\ ret = [text |-> frags[1] \o frags[2], err |-> NilErr]

\* C6: no step makes a creation call or a link-back call for an identifier that is
\* marked processed.
C6_Idempotence ==
    [][\A i \in Items :
          processedIssueIDs[i]
              => (createCalls'[i] = createCalls[i] /\ linkCalls'[i] = linkCalls[i])]_vars

\* An issue that never failed was created in the first cycle and examined again,
\* and skipped, in the second.
C6_Witness ==
    \E i \in IssueIDs :
        /\ processedIssueIDs[i]
        /\ cycles = 2
        /\ pc["main"] = "idle"
        /\ failed["main"] = {}
        /\ i \notin failedPrev
        /\ sumCalls[i] = 2
        /\ createCalls[i] = 1
        /\ linkCalls[i] = 1

\* The positions of list l that precede its first pull request.
BeforeFirstPR(l) == {k \in 1..Len(l) : \A j \in 1..k : ~IsPullRequest(l[j])}

\* When a cycle has returned, every item before the first pull request was examined
\* whether or not items failed, and every examined item that did not fail is marked.
C7_CycleEnd ==
    \A t \in G :
        pc[t] = "idle" =>
            /\ examined[t] = BeforeFirstPR(issues[t])
            /\ \A k \in examined[t] \ failed[t] : processedIssueIDs[issues[t][k]]

\* A step that records a failure leaves the ledger alone and goes on to the next item.
C7_FailStep ==
    \A t \in G :
        (failed'[t] # failed[t] /\ failed'[t] # {}) =>
            /\ processedIssueIDs' = processedIssueIDs
            /\ pc'[t] = "scan"
            /\ idx'[t] = idx[t] + 1
            /\ exit' = "no"

C8_NoRuntimeExit == exit \in {"no", "new", "panic", "nilbody", "maprace"}

\* At most one pollGitHub is in progress; the first runs before any tick is taken
\* and each tick taken starts one more.
C9_State ==
    /\ Cardinality({t \in G : pc[t] # "idle"}) <= 1
    /\ (sched = "polling") = (pc["main"] # "idle")
    /\ sched \in {"new", "initial", "exited"} => (cycles = 0 /\ ticksTaken = 0)
    /\ sched \in {"polling", "range"} => cycles = ticksTaken + 1

\* A cycle starts, and a tick is taken, only while no cycle is in progress.
C9_Step ==
    /\ cycles' # cycles =>
          /\ \A t \in G : pc[t] = "idle"
          /\ cycles' = cycles + 1
          /\ pc'["main"] = "fetch"
    /\ ticksTaken' # ticksTaken => (ticksTaken' = ticksTaken + 1 /\ cycles' = cycles + 1)

\* C9: one poll cycle runs at startup before any tick is taken, then one per tick
\* taken, and a cycle never starts while another is in progress.
C9_Scheduler == [](C9_State) /\ [][C9_Step]_vars

\* A tick arrived while the second cycle was still in progress.
C9_Witness == cycles = 2 /\ pc["main"] # "idle" /\ tickerC = 1

\* C10: a pull request never gets a summary request, a creation call or a ledger
\* entry, and no item at or after the first pull request of the list is examined.
C10_PullRequests ==
    /\ \A p \in PullIDs :
          sumCalls[p] = 0 /\ createCalls[p] = 0 /\ linkCalls[p] = 0 /\ ~processedIssueIDs[p]
    /\ \A t \in G : \A k \in 1..Len(issues[t]) :
          IsPullRequest(issues[t][k]) =>
              /\ \A j \in examined[t] : j < k
              /\ idx[t] <= k

\* A cycle ended at the pull request in second place; the issue after it was not
\* examined.
C10_Witness ==
    /\ pc["main"] = "idle"
    /\ Len(issues["main"]) = 3
    /\ IsPullRequest(issues["main"][2])
    /\ examined["main"] = {1}
    /\ sumCalls[issues["main"][3]] = 0

\* C11: a failed list fetch ends the cycle at once: the step that takes the failure
\* returns from pollGitHub without a summary, creation or link-back call and leaves
\* the ledger as it was; nothing was called in the cycle before the fetch; the process
\* goes on, main waits for the next tick and the next cycle starts when it comes.
C11_FetchFailure ==
    /\ [](\A t \in G : pc[t] = "fetch" => examined[t] = {} /\ failed[t] = {})
    /\ []((ferr["main"] /\ pc["main"] = "idle" /\ tickerC = 1 /\ cycles < MaxCycles)
            => ENABLED TickPoll)
    /\ [][\A t \in G :
            (pc[t] = "fetch" /\ ferr'[t] /\ (pc'[t] # "fetch" \/ exit' # exit))
            => /\ pc'[t] = "idle"
               /\ exit' = "no"
               /\ t = "main" => sched' = "range"
               /\ UNCHANGED <<sumCalls, createCalls, created2xx, linkCalls,
                              processedIssueIDs>>]_vars

\* The first cycle failed its fetch and the second cycle has begun.
C11_Witness ==
    /\ cycles = 2
    /\ pc["main"] = "fetch"
    /\ ferr["main"]

\* C12: an entry of the ledger, once set, stays set: no step removes or resets it.
C12_Monotonic ==
    [][\A i \in Items : processedIssueIDs[i] => processedIssueIDs'[i]]_vars

\* Item 1 was marked, met again in the next cycle, and item 2 was marked after it.
C12_Witness ==
    /\ cycles = 2
    /\ sumCalls[1] = 2
    /\ created2xx = [i \in Items |-> IF i \in IssueIDs THEN 1 ELSE 0]
    /\ processedIssueIDs[1]
    /\ processedIssueIDs[2]

\* C13: the channels are handled without a panic in every interleaving: stream and
\* errChan are each closed at most once, and exactly once when the producer goroutine
\* has ended; every close is the producer's; no send reaches a closed channel.
C13_ChannelSafety ==
    /\ \A j, k \in 1..Len(closes) : j # k => closes[j][1] # closes[k][1]
    /\ \A j \in 1..Len(closes) : closes[j][2] = "producer"
    /\ sendOnClosed = {}
    /\ streamClosed <=> \E j \in 1..Len(closes) : closes[j][1] = "stream"
    /\ errChan.closed <=> \E j \in 1..Len(closes) : closes[j][1] = "errChan"
    /\ ppc = "done" => streamClosed /\ errChan.closed

\* The consumer returned on the done context after one fragment, and the producer
\* ended with both channels closed.
C13_Witness ==
    /\ ppc = "done"
    /\ cpc = "done"
    /\ ret.err = CtxErr
    /\ sent = 1
    /\ Len(closes) = 2

\* The key of the Jira issue in a link-back request body: the piece after the
\* opening of the link.
LinkedKeys(d) ==
    {d[k + 1] : k \in {j \in 1..Len(d) : j < Len(d) /\ d[j] = "---\nLinked Jira Issue: ["}}

\* C14: the link-back call is made only after the creation call for the same issue
\* got a 2xx response that parsed, and its body names the key of that response; when
\* the creation call fails in transport or gets another status, createJiraIssue
\* returns an error without a link-back call, and an issue whose creation returned
\* an error is not marked processed.
C14_TwoPhase ==
    /\ [](\A t \in G :
            pc[t] = "edit" =>
                /\ created2xx[Cur(t)] >= 1
                /\ Cur(t) \in parsed2xx
                /\ ~Unmarshal(resp[t]).err
                /\ LinkedKeys(editReq[t]) = {Unmarshal(resp[t]).Key})
    /\ [](\A i \in Items : linkCalls[i] <= created2xx[i])
    /\ [][\A t \in G :
            /\ (pc[t] = "post" /\ pc'[t] # "post" /\ created2xx' = created2xx)
                => /\ pc'[t] = "returned"
                   /\ cerr'[t] \in {"transport", "status"}
                   /\ linkCalls' = linkCalls
            /\ (pc[t] = "returned" /\ cerr[t] # "nil")
                => processedIssueIDs' = processedIssueIDs]_vars

\* The creation call for the first issue of the list failed; the one for the second
\* got a 2xx with a key and its link-back is on the way.
C14_Witness ==
    /\ pc["main"] = "edit"
    /\ idx["main"] = 2
    /\ failed["main"] = {1}
    /\ createCalls[issues["main"][1]] = 1
    /\ created2xx[issues["main"][1]] = 0
    /\ linkCalls[issues["main"][1]] = 0
    /\ Unmarshal(resp["main"]).Key = "GT-1"

\* Text sub occurs in text s.
Contains(s, sub) ==
    /\ Len(sub) <= Len(s)
    /\ \E k \in 1..(Len(s) + 1 - Len(sub)) : SubSeq(s, k, k + Len(sub) - 1) = sub

\* C15: the payload sent for an issue has the summary line "GitHub Issue #n: t", a
\* description that contains the issue's URL and the summary generated for this issue
\* in this cycle, the configured project key and the fixed issue type.
C15_PayloadShape ==
    \A t \in G :
        pc[t] \in {"post", "edit"} =>
            LET f == payload[t].fields
                i == Cur(t)
            IN  /\ f.project.key = "GT"
                /\ f.issuetype.name = "Task"
                /\ f.summary = <<"GitHub Issue #", Number(i), ": ", Title(i)>>
                /\ Contains(f.description, <<HTMLURL(i)>>)
                /\ Contains(f.description, SummaryText(i, cycles))

\* A POST is out for an issue that was summarised in the first cycle too.
C15_Witness ==
    /\ pc["main"] = "post"
    /\ cycles = 2
    /\ sumCalls[Cur("main")] = 2
    /\ createCalls[Cur("main")] = 2

\* C16: for each examined issue the summary is requested before anything else; the
\* ledger is read, and createJiraIssue entered, only when the summary call returned
\* without an error; an issue whose summary failed in this cycle gets no creation
\* call; an issue already in the ledger costs one summary request per cycle and
\* nothing else.
C16_StepOrdering ==
    /\ [](\A t \in G :
            pc[t] \in {"create", "post", "edit", "returned"} =>
                idx[t] \in examined[t] /\ idx[t] \notin failed[t])
    /\ [](\A i \in Items : sumCalls[i] <= cycles)
    /\ [][\A t \in G :
            (pc[t] = "summary" /\ pc'[t] # "summary") =>
                IF pc'[t] = "create"
                THEN /\ ~processedIssueIDs[Cur(t)]
                     /\ idx[t] \notin failed'[t]
                     /\ UNCHANGED <<idx, createCalls, sumCalls, processedIssueIDs>>
                ELSE /\ pc'[t] = "scan"
                     /\ idx'[t] = idx[t] + 1
                     /\ UNCHANGED <<sumCalls, createCalls, created2xx, linkCalls,
                                    processedIssueIDs, exit>>]_vars

\* The first issue of the second cycle's list is in the ledger: it was summarised
\* again and passed over.
C16_Witness ==
    /\ cycles = 2
    /\ pc["main"] = "scan"
    /\ idx["main"] = 2
    /\ examined["main"] = {1}
    /\ failed["main"] = {}
    /\ processedIssueIDs[issues["main"][1]]
    /\ sumCalls[issues["main"][1]] = 2
    /\ createCalls[issues["main"][1]] = 1

\* C17: at most one pollGitHub call is in progress at any time.
C17_Serialized == Cardinality({t \in G : pc[t] # "idle"}) <= 1

\* C18: every call returns and its producer goroutine ends.
C18_Termination == <>[](cpc = "done" /\ ppc = "done")

\* The consumer returned on the done context; the producer then sent its error into
\* errChan, where it stays, closed both channels and ended.
C18_Witness ==
    /\ cpc = "done"
    /\ ret.err = CtxErr
    /\ ppc = "done"
    /\ genRes = "ctx"
    /\ errChan.buf = <<CtxErr>>

\* C19: an issue with a nil Body does not end the process.
C19_NilBodyHandled == exit # "nilbody"

\* C20: no item gets more than one creation call answered 2xx.
C20_NoDuplicateMirrors == \A i \in Items : created2xx[i] <= 1

\* C21: an open issue is marked processed in the end wherever it stands in the fetched
\* list. Cycles keep nothing but the ledger, so this is checked on each cycle: when a
\* cycle has returned whose fetch succeeded with the issue in the list, in any
\* position and among any other items, and in which no summary, creation or link-back
\* call failed, the issue is in the ledger.
C21_EventualMirroring ==
    \A i \in IssueIDs :
        (/\ pc["main"] = "idle"
         /\ cycles >= 1
         /\ exit = "no"
         /\ ~ferr["main"]
         /\ failed["main"] = {}
         /\ \E k \in 1..Len(issues["main"]) : issues["main"][k] = i)
        => processedIssueIDs[i]

====
